---- MODULE Spec2Model ----
(***************************************************************************)
(* Reading-order inference, panel grouping and per-page composition of     *)
(* manga-ocr (src/src/detector.py, src/src/panel_detector.py,              *)
(* src/src/pipeline.py).                                                   *)
(*                                                                         *)
(* A page is processed in the steps of process_image: text detection       *)
(* (filter, sort_by_reading_order, crop_text_regions), detect_panels with  *)
(* the use_panels decision, and the recognition loop.  Lists are           *)
(* sequences; the identity-keyed "used" sets of the grouping loops are     *)
(* sets of list positions.  Floating point thresholds are compared in      *)
(* exact rational arithmetic by scaling both sides to integers.            *)
(***************************************************************************)
EXTENDS Integers, Sequences, FiniteSets, TLC

VARIABLES
    image_size,     \* (width, height) of the page image
    blk_list,       \* boxes (xyxy) returned by the external text detector
    skip_errors,    \* process_image argument
    pc,             \* position inside process_image
    raw_regions,    \* detect_text_regions: regions before sorting
    sorted_regions, \* detect_text_regions: result of sort_by_reading_order
    regions,        \* process_image: result of detect_text_regions
    panels,         \* process_image: result of detect_panels
    use_panels,     \* process_image: the panel/fallback decision
    final_regions,  \* process_image: PageResult.regions
    ocr_results,    \* process_image: PageResult.ocr_results
    failed_calls,   \* the recognize_text calls of the page that raised
    image_files,    \* process_images: the list of ImageFile to process
    file_pos,       \* process_images: position of the loop in image_files
    results,        \* process_images: the list of PageResult built so far
    batch_pc,       \* process_images: "idle", "loop", "returned", "raised"
    has_manga_ocr,  \* ocr.py: HAS_MANGA_OCR
    ocr_cache,      \* ocr.py: _ocr_cache, <<>> for None or <<instance>>
    built,          \* the number of MangaOcr instances constructed
    ocr_calls,      \* the calls of _get_ocr_instance made, with their outcome
    zip_path,       \* extract_zip argument: what lies at the path
    temp_dir,       \* extract_zip argument: None or a directory path
    dirs,           \* file system: the directories that exist
    files,          \* file system: the files that exist, as (directory, name)
    zip_caller,     \* who entered the with-block: process_zip or other code
    zip_pc,         \* "idle", "call", "body", "exit", "exited"
    temp_dir_obj,   \* extract_zip: the extraction directory
    cleanup,        \* extract_zip: the cleanup flag
    leaving,        \* how the body of the with-block is leaving it
    zip_outcome,    \* what the caller of the with statement observes
    zip_image_files \* process_zip: the list it returns

\* the variables of process_images
batch_vars == <<image_files, file_pos, results, batch_pc>>

\* the variables of _get_ocr_instance
cache_vars == <<has_manga_ocr, ocr_cache, built, ocr_calls>>

\* the variables of extract_zip and process_zip
zip_vars == <<zip_path, temp_dir, dirs, files, zip_caller, zip_pc,
              temp_dir_obj, cleanup, leaving, zip_outcome, zip_image_files>>

\* the variables of process_image
page_vars == <<image_size, blk_list, pc, raw_regions, sorted_regions,
               regions, panels, use_panels, final_regions, ocr_results,
               failed_calls>>

vars == <<image_size, blk_list, skip_errors, pc, raw_regions, sorted_regions,
          regions, panels, use_panels, final_regions, ocr_results,
          failed_calls, batch_vars, cache_vars, zip_vars>>

----------------------------------------------------------------------------
(* Bounds of the model *)

\* longest detector output enumerated exhaustively over BoxPool
MaxRegions == 3

\* recognition calls numbered above MaxFailCall always succeed
MaxFailCall == 2

----------------------------------------------------------------------------
(* Generic helpers *)

Abs(x) == IF x < 0 THEN -x ELSE x

\* Python's None, where a path or an instance may be absent
None == "None"

Min2(a, b) == IF a <= b THEN a ELSE b

Max2(a, b) == IF a >= b THEN a ELSE b

SetMin(S) == CHOOSE x \in S : \A y \in S : x <= y

SetMax(S) == CHOOSE x \in S : \A y \in S : x >= y

\* sum(f[i] for i in lo..hi), by halving
RECURSIVE SumRange(_, _, _)
SumRange(f, lo, hi) ==
    IF lo > hi THEN 0
    ELSE IF lo = hi THEN f[lo]
    ELSE LET mid == (lo + hi) \div 2
         IN  SumRange(f, lo, mid) + SumRange(f, mid + 1, hi)

\* the order of Python on tuples of integers of the same length
KeyLess(k1, k2) ==
    \E i \in 1..Len(k1) :
        /\ k1[i] < k2[i]
        /\ \A j \in 1..(i - 1) : k1[j] = k2[j]

\* Python's sorted(s, key=...) and list.sort(key=...), a stable sort: keys[p]
\* is the key of s[p], equal keys keep their relative order.  ranked pairs
\* every position of s with the number of positions sorted before it.
StableSort(s, keys) ==
    LET m == Len(s)
        ranked == {<<Cardinality({q \in 1..m :
                        \/ KeyLess(keys[q], keys[p])
                        \/ (keys[q] = keys[p] /\ q < p)}), p>> : p \in 1..m}
    IN  [r \in 1..m |-> s[(CHOOSE e \in ranked : e[1] = r - 1)[2]]]

RECURSIVE Flatten(_)
Flatten(ss) == IF ss = <<>> THEN <<>> ELSE Head(ss) \o Flatten(Tail(ss))

Range(s) == {s[i] : i \in 1..Len(s)}

----------------------------------------------------------------------------
(* detector.py *)

NoImage == "None"

TextRegion(bbox, image, reading_order) ==
    [bbox |-> bbox, image |-> image, reading_order |-> reading_order]

\* sum(y2 - y1) over the boxes of items (regions or panels)
sum_height(items) ==
    SumRange([i \in 1..Len(items) |-> items[i].bbox[4] - items[i].bbox[2]],
             1, Len(items))

\* max(top_y) - min(top_y) over the boxes of items
top_spread(items) ==
    LET tops == {items[i].bbox[2] : i \in 1..Len(items)}
    IN  SetMax(tops) - SetMin(tops)

\* mutant: the larger of the two candidates in place of the smaller
scaled_row_threshold_larger(items, floor) ==
    LET n == Len(items)
    IN  Max2(floor * 100 * n,
             Max2(sum_height(items) * 60, top_spread(items) * 8 * n))

\* max(floor, min(avg_height * 0.6, image_height * 0.08)), multiplied by
\* 100 * len(items) so that it is an integer
scaled_row_threshold(items, floor) ==
    LET n == Len(items)
    IN  Max2(floor * 100 * n,
             Min2(sum_height(items) * 60, top_spread(items) * 8 * n))

\* mutant: the threshold without its floor of 15
row_threshold_no_floor(rs) ==
    Min2(sum_height(rs) * 60, top_spread(rs) * 8 * Len(rs))

\* detector.py line 234, scaled by 100 * len(rs)
row_threshold(rs) == scaled_row_threshold(rs, 15)

\* mutant: a region exactly the threshold away does not join
same_row_strict(ty, other_ty, thr, n) == Abs(ty - other_ty) * 100 * n < thr

\* abs(ty - other_ty) <= row_threshold, thr being the threshold scaled by
\* 100 * n
same_row(ty, other_ty, thr, n) == Abs(ty - other_ty) * 100 * n <= thr

\* mutant: x2 ascending
row_key_left_first(item) == <<item.bbox[3], item.bbox[2]>>

\* key of row.sort: (-x2, y1)
row_key(item) == <<-item.bbox[3], item.bbox[2]>>

\* mutant: the regions that joined a row are not marked used
RECURSIVE group_rows_unmarked(_, _, _, _)
group_rows_unmarked(items, order, used, thr) ==
    LET n == Len(items)
        pending == {k \in 1..n : order[k] \notin used}
    IN  IF pending = {} THEN <<>>
        ELSE LET seed == order[SetMin(pending)]
                 ty == items[seed].bbox[2]
                 used1 == used \cup {seed}
                 Joins(j) == /\ j \notin used1
                             /\ Abs(ty - items[j].bbox[2]) * 100 * n <= thr
                 row == <<seed>> \o SelectSeq([j \in 1..n |-> j], Joins)
             IN  <<row>> \o group_rows_unmarked(items, order, used1, thr)

\* the grouping loop (detector.py lines 241-262, panel_detector.py lines
\* 170-204): order is the list of positions sorted by top_y, used the
\* positions already assigned, thr the scaled threshold; the result is the
\* list of rows, each a list of positions, in the order of their creation
RECURSIVE group_rows(_, _, _, _)
group_rows(items, order, used, thr) ==
    LET n == Len(items)
        pending == {k \in 1..n : order[k] \notin used}
    IN  IF pending = {} THEN <<>>
        ELSE LET seed == order[SetMin(pending)]
                 ty == items[seed].bbox[2]
                 used1 == used \cup {seed}
                 Joins(j) == /\ j \notin used1
                             /\ same_row(ty, items[j].bbox[2], thr, n)
                 row == <<seed>> \o SelectSeq([j \in 1..n |-> j], Joins)
                 keys == [k \in 1..Len(row) |-> row_key(items[row[k]])]
             IN  <<StableSort(row, keys)>>
                     \o group_rows(items, order, used1 \cup Range(row), thr)

\* mutant: the seeds taken in the order of the input
sorted_by_top_as_given(items) == [i \in 1..Len(items) |-> i]

\* sorted(..., key=top_y): the positions of items in ascending top_y
sorted_by_top(items) ==
    StableSort([i \in 1..Len(items) |-> i],
               [i \in 1..Len(items) |-> <<items[i].bbox[2]>>])

\* mutant: the seeds taken in the order of the list
region_rows_in_list_order(rs) ==
    group_rows(rs, [i \in 1..Len(rs) |-> i], {}, row_threshold(rs))

\* rows of sort_by_reading_order before rows.sort (lines 236-262)
region_rows(rs) == group_rows(rs, sorted_by_top(rs), {}, row_threshold(rs))

\* key of rows.sort: min(ty for ... in row)
row_min_top(items, row) == SetMin({items[row[k]].bbox[2] : k \in 1..Len(row)})

\* mutant: rows.sort(..., reverse=True)
sort_rows_reversed(items, rows) ==
    StableSort(rows, [k \in 1..Len(rows) |-> <<-row_min_top(items, rows[k])>>])

\* rows.sort(key=min top_y) (detector.py line 266, panel_detector.py 207)
sort_rows(items, rows) ==
    StableSort(rows, [k \in 1..Len(rows) |-> <<row_min_top(items, rows[k])>>])

\* rows after rows.sort (line 266)
sorted_rows(rs) == sort_rows(rs, region_rows(rs))

\* mutant: reading_order counted from 1
sort_by_reading_order_from_one(rs) ==
    IF rs = <<>> THEN <<>>
    ELSE IF Len(rs) = 1
         THEN <<TextRegion(rs[1].bbox, rs[1].image, 1)>>
         ELSE LET flat == Flatten(sorted_rows(rs))
              IN  [k \in 1..Len(flat) |->
                      TextRegion(rs[flat[k]].bbox, rs[flat[k]].image, k)]

sort_by_reading_order(rs) ==
    IF rs = <<>> THEN <<>>
    ELSE IF Len(rs) = 1
         THEN <<TextRegion(rs[1].bbox, rs[1].image, 0)>>
         ELSE LET flat == Flatten(sorted_rows(rs))
              IN  [k \in 1..Len(flat) |->
                      TextRegion(rs[flat[k]].bbox, rs[flat[k]].image, k - 1)]

\* mutant: without the returns of lines 201-210 for an empty and a single
\* input
sort_by_reading_order_raises_unguarded(rs) == Len(rs) = 0

\* sort_by_reading_order raises on rs: past the returns of lines 201-210,
\* max/min of lines 225-226 and the division of line 230 fail on an empty
\* list (every row holds its seed, so min of line 266 has an element)
sort_by_reading_order_raises(rs) ==
    IF rs = <<>> THEN FALSE
    ELSE IF Len(rs) = 1 THEN FALSE
    ELSE Len(rs) = 0

\* max(0, min(v, limit))
clamp(v, limit) == Max2(0, Min2(v, limit))

clamped_bbox(size, bbox) ==
    <<clamp(bbox[1], size[1]), clamp(bbox[2], size[2]),
      clamp(bbox[3], size[1]), clamp(bbox[4], size[2])>>

\* the crop of the page at a rectangle
cropped_image(bbox) == <<"crop", bbox>>

crop_text_regions(size, rs) ==
    LET n == Len(rs)
        Valid(i) == LET b == clamped_bbox(size, rs[i].bbox)
                    IN  ~(b[3] <= b[1] \/ b[4] <= b[2])
        kept == SelectSeq([i \in 1..n |-> i], Valid)
    IN  [k \in 1..Len(kept) |->
            LET b == clamped_bbox(size, rs[kept[k]].bbox)
            IN  TextRegion(b, cropped_image(b), rs[kept[k]].reading_order)]

\* detect_text_regions lines 152-164: TextBlock -> TextRegion
blocks_to_regions(blks) ==
    LET Valid(b) == b[3] > b[1] /\ b[4] > b[2]
        kept == SelectSeq(blks, Valid)
    IN  [k \in 1..Len(kept) |-> TextRegion(kept[k], NoImage, 0)]

----------------------------------------------------------------------------
(* panel_detector.py *)

Panel(bbox, text_regions, reading_order) ==
    [bbox |-> bbox, text_regions |-> text_regions,
     reading_order |-> reading_order]

\* mutant: the right edge taken from the left edges
bounding_box_max_x1(rs) ==
    LET I == 1..Len(rs)
    IN  <<SetMin({rs[i].bbox[1] : i \in I}), SetMin({rs[i].bbox[2] : i \in I}),
          SetMax({rs[i].bbox[1] : i \in I}), SetMax({rs[i].bbox[4] : i \in I})>>

\* the circumscribed rectangle of the boxes of rs (lines 116-119, 134-137)
bounding_box(rs) ==
    LET I == 1..Len(rs)
    IN  <<SetMin({rs[i].bbox[1] : i \in I}), SetMin({rs[i].bbox[2] : i \in I}),
          SetMax({rs[i].bbox[3] : i \in I}), SetMax({rs[i].bbox[4] : i \in I})>>

\* mutant: avg_size * 1.0 in place of avg_size * 2.0
panel_threshold_one_avg(sum_size, max_coord, n) ==
    Max2(sum_size * 200, Min2(max_coord * 16 * n, 150 * 200 * n))

\* max(avg_size * 2.0, min(image_size * 0.08, 150)) of lines 73-74,
\* multiplied by 200 * n: sum_size is the sum of the widths (heights) and
\* max_coord the largest x2 (y2)
panel_threshold(sum_size, max_coord, n) ==
    Max2(sum_size * 400, Min2(max_coord * 16 * n, 150 * 200 * n))

\* mutant: the doubled centers taken for the centers
within_panel_threshold_doubled(c2, other_c2, thr, n) ==
    Abs(c2 - other_c2) * 200 * n <= thr

\* distance <= panel_threshold, for centers given doubled (c2 = 2 * center)
\* and thr the threshold scaled by 200 * n
within_panel_threshold(c2, other_c2, thr, n) ==
    Abs(c2 - other_c2) * 100 * n <= thr

\* mutant: the regions that joined a group are not marked used
RECURSIVE group_panels_unmarked(_, _, _, _)
group_panels_unmarked(rs, used, thr_x, thr_y) ==
    LET n == Len(rs)
        pending == (1..n) \ used
    IN  IF pending = {} THEN <<>>
        ELSE LET seed == SetMin(pending)
                 cx2(i) == rs[i].bbox[1] + rs[i].bbox[3]
                 cy2(i) == rs[i].bbox[2] + rs[i].bbox[4]
                 used1 == used \cup {seed}
                 Joins(j) ==
                     /\ j \notin used1
                     /\ within_panel_threshold(cx2(seed), cx2(j), thr_x, n)
                     /\ within_panel_threshold(cy2(seed), cy2(j), thr_y, n)
                 panel_regions ==
                     <<seed>> \o SelectSeq([j \in 1..n |-> j], Joins)
             IN  <<panel_regions>>
                     \o group_panels_unmarked(rs, used1, thr_x, thr_y)

\* the grouping loop of lines 82-104: used is the set of positions already
\* assigned; the result is the list of groups, each a list of positions
RECURSIVE group_panels(_, _, _, _)
group_panels(rs, used, thr_x, thr_y) ==
    LET n == Len(rs)
        pending == (1..n) \ used
    IN  IF pending = {} THEN <<>>
        ELSE LET seed == SetMin(pending)
                 cx2(i) == rs[i].bbox[1] + rs[i].bbox[3]
                 cy2(i) == rs[i].bbox[2] + rs[i].bbox[4]
                 used1 == used \cup {seed}
                 Joins(j) ==
                     /\ j \notin used1
                     /\ within_panel_threshold(cx2(seed), cx2(j), thr_x, n)
                     /\ within_panel_threshold(cy2(seed), cy2(j), thr_y, n)
                 panel_regions ==
                     <<seed>> \o SelectSeq([j \in 1..n |-> j], Joins)
             IN  <<panel_regions>>
                     \o group_panels(rs, used1 \cup Range(panel_regions),
                                     thr_x, thr_y)

\* lines 49-104: the groups of positions of rs
panel_groups(rs) ==
    LET n == Len(rs)
        sum_width == SumRange([i \in 1..n |-> rs[i].bbox[3] - rs[i].bbox[1]],
                              1, n)
        max_x == SetMax({rs[i].bbox[3] : i \in 1..n})
        max_y == SetMax({rs[i].bbox[4] : i \in 1..n})
    IN  group_panels(rs, {},
                     panel_threshold(sum_width, max_x, n),
                     panel_threshold(sum_height(rs), max_y, n))

\* lines 106-127: one Panel per group
panel_objects(rs) ==
    LET groups == panel_groups(rs)
    IN  [g \in 1..Len(groups) |->
            LET panel_regions ==
                    [k \in 1..Len(groups[g]) |-> rs[groups[g][k]]]
            IN  Panel(bounding_box(panel_regions),
                      sort_by_reading_order(panel_regions), 0)]

\* mutant: the floor of the region rows (15) in place of 20
panel_row_threshold_floor_15(ps) == scaled_row_threshold(ps, 15)

\* panel_detector.py line 163, scaled by 100 * len(ps)
panel_row_threshold(ps) == scaled_row_threshold(ps, 20)

\* mutant: the panels numbered in the order of their creation
order_panels_as_grouped(ps) ==
    [k \in 1..Len(ps) |-> Panel(ps[k].bbox, ps[k].text_regions, k - 1)]

\* lines 146-231: the panels in reading order
order_panels(ps) ==
    LET rows == sort_rows(ps, group_rows(ps, sorted_by_top(ps), {},
                                         panel_row_threshold(ps)))
        flat == Flatten(rows)
    IN  [k \in 1..Len(flat) |->
            Panel(ps[flat[k]].bbox, ps[flat[k]].text_regions, k - 1)]

\* mutant: the ordered panels keep the reading_order of their creation
detect_panels_unnumbered(rs) ==
    IF rs = <<>> THEN <<>>
    ELSE IF Len(rs) = 1
         THEN <<Panel(rs[1].bbox, <<rs[1]>>, 0)>>
         ELSE LET ps == panel_objects(rs)
                  ordered == order_panels(ps)
              IN  IF Len(ps) <= 1
                  THEN <<Panel(bounding_box(rs), sort_by_reading_order(rs), 0)>>
                  ELSE [k \in 1..Len(ordered) |->
                           Panel(ordered[k].bbox, ordered[k].text_regions, 0)]

detect_panels(rs) ==
    IF rs = <<>> THEN <<>>
    ELSE IF Len(rs) = 1
         THEN <<Panel(rs[1].bbox, <<rs[1]>>, 0)>>
         ELSE LET ps == panel_objects(rs)
              IN  IF Len(ps) <= 1
                  THEN <<Panel(bounding_box(rs), sort_by_reading_order(rs), 0)>>
                  ELSE order_panels(ps)

\* detect_panels raises on rs: past the returns of lines 34-47, the
\* divisions of lines 60-61 and max of lines 64-67 fail on an empty list,
\* min/max of lines 116-119 on an empty group, and the calls of
\* sort_by_reading_order of lines 113 and 139 when that raises (the panel
\* ordering of lines 146-207 is entered with two panels or more)
detect_panels_raises(rs) ==
    IF rs = <<>> THEN FALSE
    ELSE IF Len(rs) = 1 THEN FALSE
    ELSE \/ Len(rs) = 0
         \/ LET groups == panel_groups(rs)
                members(g) == [k \in 1..Len(groups[g]) |-> rs[groups[g][k]]]
            IN  \/ \E g \in 1..Len(groups) :
                       \/ groups[g] = <<>>
                       \/ sort_by_reading_order_raises(members(g))
                \/ Len(groups) <= 1 /\ sort_by_reading_order_raises(rs)

----------------------------------------------------------------------------
(* ocr.py *)

OCRResult(text, confidence, region) ==
    [text |-> text, confidence |-> confidence, region |-> region]

----------------------------------------------------------------------------
(* Inputs *)

BoxPool ==
    { <<200, 50, 300, 100>>,
      <<50, 50, 150, 100>>,
      <<210, 110, 290, 150>>,
      <<50, 250, 150, 300>>,
      <<200, 65, 300, 95>>,
      <<250, 66, 350, 96>> }

ImageSizes == { <<400, 400>>, <<240, 280>> }

PoolPages == UNION { [1..n -> BoxPool] : n \in 0..MaxRegions }

\* four regions in two rows (tests/test_detector.py lines 19-24)
TwoRowsPage ==
    << <<50, 50, 150, 100>>, <<200, 200, 300, 250>>,
       <<200, 50, 300, 100>>, <<50, 200, 150, 250>> >>

\* five regions that end up in one panel
OnePanelPage ==
    << <<200, 50, 300, 100>>, <<50, 50, 150, 100>>, <<210, 110, 290, 150>>,
       <<60, 110, 140, 150>>, <<130, 80, 220, 120>> >>

\* five regions of which only the first two are close to each other
FragmentedPage ==
    << <<300, 20, 340, 40>>, <<310, 45, 350, 65>>, <<300, 120, 340, 140>>,
       <<300, 220, 340, 240>>, <<300, 320, 340, 340>> >>

\* a detector output with an empty box, which detect_text_regions skips
EmptyBoxPage ==
    << <<200, 50, 300, 100>>, <<100, 100, 100, 150>>, <<50, 250, 150, 300>> >>

\* three low regions in two rows: 0.6 * avg_height = 15.6 is the smaller
\* argument of min and above the floor of 15
ShortBoxesPage ==
    << <<200, 50, 300, 76>>, <<50, 50, 150, 76>>, <<200, 250, 300, 276>> >>

\* three regions side by side (tests/test_panel_detector.py lines 100-102)
SameRowPanelsPage ==
    << <<250, 50, 300, 100>>, <<150, 50, 200, 100>>, <<50, 50, 100, 100>> >>

\* two regions far apart side by side, the right one 18 lower: more than
\* the row threshold of the regions (15), less than that of the panels (20)
SlantedPairPage ==
    << <<300, 68, 340, 100>>, <<50, 50, 90, 80>> >>

\* three regions far apart in one slanted row, given left one first, and a
\* fourth far below
SlantedRowPage ==
    << <<50, 50, 90, 80>>, <<300, 60, 340, 100>>, <<170, 55, 210, 90>>,
       <<50, 300, 90, 330>> >>

ScenarioPages ==
    {TwoRowsPage, OnePanelPage, FragmentedPage, EmptyBoxPage, ShortBoxesPage,
     SameRowPanelsPage, SlantedPairPage, SlantedRowPage}

Pages == PoolPages \cup ScenarioPages

\* pages with one crowded panel above a second panel: 1001 and 1000
\* detections of the same box, followed by one box far below
CrowdedPages ==
    { [i \in 1..1002 |-> IF i <= 1001 THEN <<200, 50, 300, 100>>
                                      ELSE <<50, 250, 150, 300>>],
      [i \in 1..1001 |-> IF i <= 1000 THEN <<200, 50, 300, 100>>
                                      ELSE <<50, 250, 150, 300>>] }

----------------------------------------------------------------------------
(* process_image *)

\* process_images has not been called
BatchIdle ==
    /\ image_files = <<>>
    /\ file_pos = 1
    /\ results = <<>>
    /\ batch_pc = "idle"

\* _get_ocr_instance has not been called
CacheIdle ==
    /\ has_manga_ocr = TRUE
    /\ ocr_cache = <<>>
    /\ built = 0
    /\ ocr_calls = <<>>

\* extract_zip has not been called
ZipIdle ==
    /\ zip_path = [kind |-> "missing", names |-> {}]
    /\ temp_dir = None
    /\ dirs = {}
    /\ files = {}
    /\ zip_caller = "none"
    /\ zip_pc = "idle"
    /\ temp_dir_obj = None
    /\ cleanup = FALSE
    /\ leaving = "none"
    /\ zip_outcome = "none"
    /\ zip_image_files = <<>>

Init ==
    /\ image_size \in ImageSizes
    /\ blk_list \in Pages
    /\ skip_errors \in BOOLEAN
    /\ pc = "start"
    /\ raw_regions = <<>>
    /\ sorted_regions = <<>>
    /\ regions = <<>>
    /\ panels = <<>>
    /\ use_panels = TRUE
    /\ final_regions = <<>>
    /\ ocr_results = <<>>
    /\ failed_calls = {}
    /\ BatchIdle
    /\ CacheIdle
    /\ ZipIdle

\* the pages of Init and the crowded pages
InitCrowded ==
    /\ \/ /\ image_size \in ImageSizes
          /\ blk_list \in Pages
          /\ skip_errors \in BOOLEAN
       \/ /\ image_size = <<400, 400>>
          /\ blk_list \in CrowdedPages
          /\ skip_errors = TRUE
    /\ pc = "start"
    /\ raw_regions = <<>>
    /\ sorted_regions = <<>>
    /\ regions = <<>>
    /\ panels = <<>>
    /\ use_panels = TRUE
    /\ final_regions = <<>>
    /\ ocr_results = <<>>
    /\ failed_calls = {}
    /\ BatchIdle
    /\ CacheIdle
    /\ ZipIdle

\* pipeline.py lines 63-67: detect_text_regions; an exception of
\* sort_by_reading_order reaches the handler of lines 150-162, which returns
\* an empty page with skip_errors and raises otherwise
DetectTextRegions ==
    /\ pc = "start"
    /\ raw_regions' = blocks_to_regions(blk_list)
    /\ sorted_regions' = IF sort_by_reading_order_raises(raw_regions') THEN <<>>
                         ELSE sort_by_reading_order(raw_regions')
    /\ regions' = crop_text_regions(image_size, sorted_regions')
    /\ pc' = IF ~sort_by_reading_order_raises(raw_regions') THEN "detected"
             ELSE IF skip_errors THEN "done" ELSE "raised"
    /\ UNCHANGED <<image_size, blk_list, skip_errors, panels, use_panels,
                   final_regions, ocr_results, failed_calls,
                   batch_vars, cache_vars, zip_vars>>

\* mutant: the fragmentation guard fires from 80% on
panels_usable_at_least(ps, rs) ==
    IF ps = <<>> THEN FALSE
    ELSE IF Len(ps) = 1 THEN FALSE
    ELSE IF 5 * Len(ps) >= 4 * Len(rs) /\ Len(rs) > 2 THEN FALSE
    ELSE TRUE

\* pipeline.py lines 83-94: len(panels) > len(regions) * 0.8 is compared as
\* 5 * len(panels) > 4 * len(regions)
panels_usable(ps, rs) ==
    IF ps = <<>> THEN FALSE
    ELSE IF Len(ps) = 1 THEN FALSE
    ELSE IF 5 * Len(ps) > 4 * Len(rs) /\ Len(rs) > 2 THEN FALSE
    ELSE TRUE

\* pipeline.py lines 70-94: detect_panels and the use_panels decision.
\* When detect_panels raises, the handler of lines 76-81 goes on without
\* panels with skip_errors and raises ImageProcessingError otherwise.
DetectPanels ==
    /\ pc = "detected"
    /\ panels' = IF regions # <<>> /\ ~detect_panels_raises(regions)
                 THEN detect_panels(regions) ELSE <<>>
    /\ use_panels' = panels_usable(panels', regions)
    /\ pc' = IF regions # <<>> /\ detect_panels_raises(regions)
                    /\ ~skip_errors
             THEN "raised" ELSE "grouped"
    /\ UNCHANGED <<image_size, blk_list, skip_errors, raw_regions,
                   sorted_regions, regions, final_regions, ocr_results,
                   failed_calls, batch_vars, cache_vars, zip_vars>>

\* mutant: the panel's reading order is not scaled
panel_keyed_regions_unscaled(ps) ==
    Flatten([p \in 1..Len(ps) |->
        [i \in 1..Len(ps[p].text_regions) |->
            TextRegion(ps[p].text_regions[i].bbox,
                       ps[p].text_regions[i].image,
                       ps[p].reading_order + (i - 1))]])

\* lines 103-110: the regions in the order of the panel loop, re-keyed with
\* panel.reading_order * 1000 + region_idx
panel_keyed_regions(ps) ==
    Flatten([p \in 1..Len(ps) |->
        [i \in 1..Len(ps[p].text_regions) |->
            TextRegion(ps[p].text_regions[i].bbox,
                       ps[p].text_regions[i].image,
                       ps[p].reading_order * 1000 + (i - 1))]])

\* the outcome of one recognize_text call of the loops of lines 103-138;
\* the call fails when its number is in fails
recognized(region, k, fails) ==
    IF k \in fails THEN OCRResult("", 0, region)
    ELSE OCRResult("text", 1, region)

\* mutant: with skip_errors a region whose recognition fails is left out
Recognize_drop_failed(todo, fails) ==
    LET stop == IF skip_errors \/ fails = {} THEN Len(todo)
                ELSE SetMin(fails) - 1
        Succeeds(k) == k \notin fails
        kept == SelectSeq([k \in 1..stop |-> k], Succeeds)
    IN  /\ final_regions' = [i \in 1..Len(kept) |-> todo[kept[i]]]
        /\ ocr_results' = [i \in 1..Len(kept) |->
                               recognized(todo[kept[i]], kept[i], fails)]
        /\ failed_calls' = {k \in fails : k <= stop + 1}
        /\ pc' = IF stop = Len(todo) THEN "done" ELSE "raised"
        /\ UNCHANGED <<image_size, blk_list, skip_errors, raw_regions,
                       sorted_regions, regions, panels, use_panels,
                       batch_vars, cache_vars, zip_vars>>

\* the recognition loop over todo: with skip_errors every region is kept,
\* otherwise the first failing call raises ImageProcessingError, which
\* process_image re-raises at line 162
Recognize(todo, fails) ==
    LET stop == IF skip_errors \/ fails = {} THEN Len(todo)
                ELSE SetMin(fails) - 1
    IN  /\ final_regions' = SubSeq(todo, 1, stop)
        /\ ocr_results' = [k \in 1..stop |-> recognized(todo[k], k, fails)]
        /\ failed_calls' = {k \in fails : k <= stop + 1}
        /\ pc' = IF stop = Len(todo) THEN "done" ELSE "raised"
        /\ UNCHANGED <<image_size, blk_list, skip_errors, raw_regions,
                       sorted_regions, regions, panels, use_panels,
                       batch_vars, cache_vars, zip_vars>>

\* the calls of the loop that may fail
FailChoices(todo) == SUBSET (1..Min2(Len(todo), MaxFailCall))

\* mutant: the loop of the fallback branch in the panel branch
RecognizeByPanel_flat ==
    /\ pc = "grouped"
    /\ use_panels
    /\ \E fails \in FailChoices(regions) : Recognize(regions, fails)

\* pipeline.py lines 100-122
RecognizeByPanel ==
    /\ pc = "grouped"
    /\ use_panels
    /\ \E fails \in FailChoices(panel_keyed_regions(panels)) :
           Recognize(panel_keyed_regions(panels), fails)

\* mutant: the fallback loop walks the members of the panels
RecognizeFallback_by_members ==
    /\ pc = "grouped"
    /\ ~use_panels
    /\ \E fails \in FailChoices(regions) :
           Recognize(Flatten([p \in 1..Len(panels) |->
                                 panels[p].text_regions]), fails)

\* pipeline.py lines 123-138
RecognizeFallback ==
    /\ pc = "grouped"
    /\ ~use_panels
    /\ \E fails \in FailChoices(regions) : Recognize(regions, fails)

Next ==
    \/ DetectTextRegions
    \/ DetectPanels
    \/ RecognizeByPanel
    \/ RecognizeFallback

Spec == Init /\ [][Next]_vars

SpecCrowded == InitCrowded /\ [][Next]_vars

----------------------------------------------------------------------------
(* process_images *)

\* longest list of image files given to process_images
MaxImages == 2

\* process_image has not been called
PageIdle ==
    /\ image_size = <<400, 400>>
    /\ blk_list = <<>>
    /\ pc = "start"
    /\ raw_regions = <<>>
    /\ sorted_regions = <<>>
    /\ regions = <<>>
    /\ panels = <<>>
    /\ use_panels = TRUE
    /\ final_regions = <<>>
    /\ ocr_results = <<>>
    /\ failed_calls = {}

\* processor.py lines 15-19
ImageFile(path, filename, index) ==
    [path |-> path, filename |-> filename, index |-> index]

\* pipeline.py lines 19-25; processing_time is a clock reading and is left out
PageResult(filename, page_number, rs, ocr) ==
    [filename |-> filename, page_number |-> page_number,
     regions |-> rs, ocr_results |-> ocr]

\* the values ImageFile.path takes: a pathlib.Path, or a str, which the
\* NamedTuple accepts as well and which has no attribute "name"
PathValues ==
    { [type |-> "Path", name |-> "page.png"],
      [type |-> "Path", name |-> "spread.png"],
      [type |-> "Path", name |-> "blank.png"],
      [type |-> "Path", name |-> "broken.png"],
      [type |-> "Path", name |-> "huge.png"],
      [type |-> "str", name |-> "page.png"] }

\* line 56: Image.open raises on a file that is not an image
Image_open_raises(image_path) == image_path.name = "broken.png"

\* lines 63-67: detect_text_regions raises when the detector fails on the
\* image
detect_text_regions_raises(image_path) == image_path.name = "huge.png"

\* the boxes the external detector finds in the image at a path
detected_blocks(image_path) ==
    IF image_path.name = "page.png" THEN SlantedRowPage
    ELSE IF image_path.name = "spread.png" THEN ShortBoxesPage
    ELSE <<>>

\* the indexes an ImageFile of the list may carry at position i:
\* get_image_files numbers from 1 (processor.py line 118), other callers
\* number as they like
IndexChoices(i) == {i, 10 - i}

ImageFileLists ==
    UNION { { [i \in 1..n |-> ImageFile(ps[i], ps[i].name, ix[i])] :
                ps \in [1..n -> PathValues],
                ix \in { f \in [1..n -> 1..9] :
                           \A i \in 1..n : f[i] \in IndexChoices(i) } } :
            n \in 0..MaxImages }

\* pipeline.py lines 96-138 as a function of the regions in loop order and
\* of the calls that fail: the regions and results kept, and whether the
\* loop raised ImageProcessingError
recognize_regions(todo, fails, skip) ==
    LET failing == fails \cap (1..Len(todo))
        stop == IF skip \/ failing = {} THEN Len(todo)
                ELSE SetMin(failing) - 1
    IN  [raised |-> stop < Len(todo),
         regions |-> SubSeq(todo, 1, stop),
         ocr_results |-> [k \in 1..stop |-> recognized(todo[k], k, failing)]]

\* pipeline.py lines 28-162 as a function: what process_image returns, or
\* that it raises.  Line 52 is outside the try; every exception inside it
\* reaches the handler of lines 150-162.
process_image(image_path, page_number, skip, fails) ==
    LET handler == [raised |-> ~skip,
                    value |-> PageResult(image_path.name, page_number,
                                         <<>>, <<>>)]
    IN  IF image_path.type # "Path" THEN [raised |-> TRUE, value |-> None]
        ELSE IF Image_open_raises(image_path) THEN handler
        ELSE IF detect_text_regions_raises(image_path) THEN handler
        ELSE LET raw == blocks_to_regions(detected_blocks(image_path))
             IN  IF sort_by_reading_order_raises(raw) THEN handler
                 ELSE
             LET rs == crop_text_regions(<<400, 400>>,
                                         sort_by_reading_order(raw))
                 panels_raise == rs # <<>> /\ detect_panels_raises(rs)
                 ps == IF rs # <<>> /\ ~panels_raise THEN detect_panels(rs)
                       ELSE <<>>
                 todo == IF panels_usable(ps, rs) THEN panel_keyed_regions(ps)
                         ELSE rs
                 rec == recognize_regions(todo, fails, skip)
             IN  IF panels_raise /\ ~skip THEN handler
                 ELSE IF rec.raised THEN handler
                 ELSE [raised |-> FALSE,
                       value |-> PageResult(image_path.name, page_number,
                                            rec.regions, rec.ocr_results)]

InitBatch ==
    /\ skip_errors \in BOOLEAN
    /\ image_files \in ImageFileLists
    /\ file_pos = 1
    /\ results = <<>>
    /\ batch_pc = "loop"
    /\ PageIdle
    /\ CacheIdle
    /\ ZipIdle

\* mutant: the handler of process_images skips the page without a result
ProcessNextImage_drop_failed ==
    /\ batch_pc = "loop"
    /\ file_pos <= Len(image_files)
    /\ \E fails \in SUBSET (1..MaxFailCall) :
        LET image_file == image_files[file_pos]
            out == process_image(image_file.path, image_file.index,
                                 skip_errors, fails)
        IN  IF ~out.raised
            THEN /\ results' = Append(results, out.value)
                 /\ file_pos' = file_pos + 1
                 /\ batch_pc' = "loop"
            ELSE IF skip_errors
            THEN /\ results' = results
                 /\ file_pos' = file_pos + 1
                 /\ batch_pc' = "loop"
            ELSE /\ results' = results
                 /\ file_pos' = file_pos
                 /\ batch_pc' = "raised"
    /\ UNCHANGED <<image_files, skip_errors, page_vars, cache_vars, zip_vars>>

\* pipeline.py lines 185-209: one iteration of the loop of process_images
ProcessNextImage ==
    /\ batch_pc = "loop"
    /\ file_pos <= Len(image_files)
    /\ \E fails \in SUBSET (1..MaxFailCall) :
        LET image_file == image_files[file_pos]
            out == process_image(image_file.path, image_file.index,
                                 skip_errors, fails)
        IN  IF ~out.raised
            THEN /\ results' = Append(results, out.value)
                 /\ file_pos' = file_pos + 1
                 /\ batch_pc' = "loop"
            ELSE IF skip_errors
            THEN /\ results' = Append(results,
                                  PageResult(image_file.filename,
                                             image_file.index, <<>>, <<>>))
                 /\ file_pos' = file_pos + 1
                 /\ batch_pc' = "loop"
            ELSE /\ results' = results
                 /\ file_pos' = file_pos
                 /\ batch_pc' = "raised"
    /\ UNCHANGED <<image_files, skip_errors, page_vars, cache_vars, zip_vars>>

\* pipeline.py line 211
ReturnResults ==
    /\ batch_pc = "loop"
    /\ file_pos > Len(image_files)
    /\ batch_pc' = "returned"
    /\ UNCHANGED <<image_files, file_pos, results, skip_errors, page_vars,
                   cache_vars, zip_vars>>

NextBatch ==
    \/ ProcessNextImage
    \/ ReturnResults

SpecBatch == InitBatch /\ [][NextBatch]_vars

----------------------------------------------------------------------------
(* _get_ocr_instance *)

\* most calls of _get_ocr_instance in a run
MaxOcrCalls == 3

\* the device argument (ocr.py line 36)
Devices == {"auto", "mps", "cpu"}

\* ocr.py line 68: the MangaOcr instance number id, constructed with force_cpu
MangaOcr(id, force_cpu) == [id |-> id, force_cpu |-> force_cpu]

\* ocr.py lines 52-60
force_cpu_flag(device, force_cpu) ==
    IF device = "cpu" \/ force_cpu THEN TRUE
    ELSE IF device = "mps" THEN FALSE
    ELSE FALSE

\* one call of _get_ocr_instance and its outcome; returned holds the
\* instance returned and is empty when the call raised
OcrCall(device, force_cpu, raised, returned) ==
    [device |-> device, force_cpu |-> force_cpu, raised |-> raised,
     returned |-> returned]

\* the module is loaded with or without manga_ocr (ocr.py lines 6-11) and
\* with an empty cache (line 21)
InitCache ==
    /\ has_manga_ocr \in BOOLEAN
    /\ ocr_cache = <<>>
    /\ built = 0
    /\ ocr_calls = <<>>
    /\ skip_errors = TRUE
    /\ PageIdle
    /\ BatchIdle
    /\ ZipIdle

\* ocr.py lines 31-69
GetOcrInstance ==
    /\ Len(ocr_calls) < MaxOcrCalls
    /\ \E device \in Devices, force_cpu \in BOOLEAN :
        IF ~has_manga_ocr
        THEN /\ ocr_calls' = Append(ocr_calls,
                                 OcrCall(device, force_cpu, TRUE, <<>>))
             /\ UNCHANGED <<ocr_cache, built>>
        ELSE IF ocr_cache # <<>>
        THEN /\ ocr_calls' = Append(ocr_calls,
                                 OcrCall(device, force_cpu, FALSE, ocr_cache))
             /\ UNCHANGED <<ocr_cache, built>>
        ELSE /\ ocr_cache' = <<MangaOcr(built + 1,
                                        force_cpu_flag(device, force_cpu))>>
             /\ built' = built + 1
             /\ ocr_calls' = Append(ocr_calls,
                                 OcrCall(device, force_cpu, FALSE, ocr_cache'))
    /\ UNCHANGED <<has_manga_ocr, skip_errors, page_vars, batch_vars,
                   zip_vars>>

NextCache == GetOcrInstance

SpecCache == InitCache /\ [][NextCache]_vars

----------------------------------------------------------------------------
(* extract_zip, get_image_files, process_zip *)

\* a file name: a number and a suffix, e.g. "10.png"
FileName(stem, suffix) == [stem |-> stem, suffix |-> suffix]

\* the members an archive may hold
MemberNames ==
    { FileName(1, ".png"), FileName(2, ".JPG"), FileName(10, ".png"),
      FileName(3, ".txt") }

\* what lies at zip_path: nothing, a directory, a file that is not a zip
\* archive, an archive whose extraction fails after its members were
\* written, or a sound archive
ZipPaths ==
    { [kind |-> k, names |-> {}] : k \in {"missing", "directory", "corrupt"} }
    \cup { [kind |-> k, names |-> ns] :
             k \in {"truncated", "archive"}, ns \in SUBSET MemberNames }

\* the directory tempfile.mkdtemp creates (processor.py line 47)
MkdtempDir == "manga-ocr-tmp"

\* the directory a caller supplies as temp_dir
SuppliedDir == "out"

\* utils.py lines 60-62: Path(filename).suffix.lower()
lower(suffix) ==
    IF suffix = ".JPG" THEN ".jpg"
    ELSE IF suffix = ".PNG" THEN ".png"
    ELSE suffix

\* utils.py lines 50-62
validate_image_file(filename) ==
    lower(filename.suffix) \in {".jpg", ".jpeg", ".png", ".webp"}

\* processor.py lines 106-109: natural order compares the numbers in the
\* names as numbers
RECURSIVE natsorted(_)
natsorted(names) ==
    IF names = {} THEN <<>>
    ELSE LET first == CHOOSE a \in names :
                          \A b \in names : a.stem <= b.stem
         IN  <<first>> \o natsorted(names \ {first})

\* processor.py lines 75-121 on the file system fs; the empty list stands
\* for NoImagesFoundError (lines 102-103)
get_image_files(fs, directory) ==
    LET found == {f[2] : f \in {g \in fs : g[1] = directory}}
        sorted_files == natsorted({n \in found : validate_image_file(n)})
    IN  [i \in 1..Len(sorted_files) |->
            ImageFile(<<directory, sorted_files[i]>>, sorted_files[i], i)]

\* mutant: the directory is never cleaned up
cleanup_flag_never(dir) == FALSE

\* processor.py lines 46-52: cleanup is set when extract_zip made the
\* directory with mkdtemp
cleanup_flag(dir) == dir = None

\* mutant: rmtree leaves the files behind
rmtree_files_kept(fs, directory) == fs

\* processor.py line 72: shutil.rmtree removes the files of the directory
rmtree_files(fs, directory) == {f \in fs : f[1] # directory}

\* processor.py line 72: shutil.rmtree removes the directory
rmtree_dirs(ds, directory) == ds \ {directory}

InitZip ==
    /\ zip_path \in ZipPaths
    /\ temp_dir \in {None, SuppliedDir}
    /\ dirs \in {{}, {SuppliedDir}}
    /\ files = {}
    /\ zip_caller \in {"process_zip", "with_block"}
    /\ zip_pc = "call"
    /\ temp_dir_obj = None
    /\ cleanup = FALSE
    /\ leaving = "none"
    /\ zip_outcome = "none"
    /\ zip_image_files = <<>>
    /\ skip_errors = TRUE
    /\ PageIdle
    /\ BatchIdle
    /\ CacheIdle

\* processor.py lines 37-66: extract_zip up to its yield.  A missing path
\* or a directory raises before any directory is made; a failing
\* extraction raises ZipExtractionError through the finally of lines 68-72.
EnterExtractZip ==
    /\ zip_pc = "call"
    /\ IF zip_path.kind \in {"missing", "directory"}
       THEN /\ zip_outcome' = "ZipExtractionError"
            /\ zip_pc' = "exited"
            /\ UNCHANGED <<dirs, files, temp_dir_obj, cleanup>>
       ELSE LET made == IF temp_dir = None THEN MkdtempDir ELSE temp_dir
                flag == cleanup_flag(temp_dir)
                written == files \cup {<<made, n>> : n \in zip_path.names}
            IN  /\ temp_dir_obj' = made
                /\ cleanup' = flag
                /\ IF zip_path.kind = "archive"
                   THEN /\ dirs' = dirs \cup {made}
                        /\ files' = written
                        /\ zip_pc' = "body"
                        /\ zip_outcome' = zip_outcome
                   ELSE /\ dirs' = IF flag
                                   THEN rmtree_dirs(dirs \cup {made}, made)
                                   ELSE dirs \cup {made}
                        /\ files' = IF flag THEN rmtree_files(written, made)
                                    ELSE written
                        /\ zip_pc' = "exited"
                        /\ zip_outcome' = "ZipExtractionError"
    /\ UNCHANGED <<zip_path, temp_dir, zip_caller, leaving, zip_image_files,
                   skip_errors, page_vars, batch_vars, cache_vars>>

\* processor.py lines 140-141: the body of the with-block of process_zip
ProcessZipBody ==
    /\ zip_pc = "body"
    /\ zip_caller = "process_zip"
    /\ zip_image_files' = get_image_files(files, temp_dir_obj)
    /\ leaving' = IF zip_image_files' = <<>> THEN "NoImagesFoundError"
                  ELSE "return"
    /\ zip_pc' = "exit"
    /\ UNCHANGED <<zip_path, temp_dir, dirs, files, zip_caller, temp_dir_obj,
                   cleanup, zip_outcome, skip_errors, page_vars, batch_vars,
                   cache_vars>>

\* the body of a with-block of other code (cli.py lines 165-221,
\* test_processor.py lines 36-46): it runs to its end or raises
WithBlockBody ==
    /\ zip_pc = "body"
    /\ zip_caller = "with_block"
    /\ leaving' \in {"end", "raise"}
    /\ zip_pc' = "exit"
    /\ UNCHANGED <<zip_path, temp_dir, dirs, files, zip_caller, temp_dir_obj,
                   cleanup, zip_outcome, zip_image_files, skip_errors,
                   page_vars, batch_vars, cache_vars>>

\* processor.py lines 68-72: the finally of extract_zip, run when the
\* with-block is left; afterwards the caller has the value or the exception
ExitExtractZip ==
    /\ zip_pc = "exit"
    /\ dirs' = IF cleanup THEN rmtree_dirs(dirs, temp_dir_obj) ELSE dirs
    /\ files' = IF cleanup THEN rmtree_files(files, temp_dir_obj) ELSE files
    /\ zip_outcome' = IF leaving = "return" THEN "returned"
                      ELSE IF leaving = "end" THEN "completed"
                      ELSE IF leaving = "raise" THEN "BodyError"
                      ELSE "NoImagesFoundError"
    /\ zip_pc' = "exited"
    /\ UNCHANGED <<zip_path, temp_dir, zip_caller, temp_dir_obj, cleanup,
                   leaving, zip_image_files, skip_errors, page_vars,
                   batch_vars, cache_vars>>

NextZip ==
    \/ EnterExtractZip
    \/ ProcessZipBody
    \/ WithBlockBody
    \/ ExitExtractZip

SpecZip == InitZip /\ [][NextZip]_vars

----------------------------------------------------------------------------
(* Properties *)

\* the number of positions of s that hold x
Count(s, x) == Cardinality({i \in 1..Len(s) : s[i] = x})

\* bbox and image of a region, without its reading order
Piece(r) == <<r.bbox, r.image>>

Pieces(rs) == [i \in 1..Len(rs) |-> Piece(rs[i])]

\* out holds the regions of in, each as often as in does, in some order
IsPermutation(in, out) ==
    /\ Len(in) = Len(out)
    /\ \A i \in 1..Len(in) :
           Count(Pieces(out), Piece(in[i])) = Count(Pieces(in), Piece(in[i]))

\* the region at position k (from 1) carries reading_order k - 1
NumberedFromZero(rs) == \A k \in 1..Len(rs) : rs[k].reading_order = k - 1

Sorted(in, out) == IsPermutation(in, out) /\ NumberedFromZero(out)

\* C1: sort_by_reading_order returns a permutation of a non-empty input
\* (every bbox/image exactly as often as in the input) and the region at
\* output position i carries reading_order i; checked on the call of
\* detect_text_regions and on the call of detect_panels for a page whose
\* regions form a single panel.
C1_SortIsNumberedPermutation ==
    /\ (pc # "start" /\ raw_regions # <<>>)
           => Sorted(raw_regions, sorted_regions)
    /\ (pc \in {"grouped", "done", "raised"}
            /\ Len(regions) >= 2 /\ Len(panels) = 1)
           => Sorted(regions, panels[1].text_regions)

C1_Witness ==
    /\ pc = "grouped"
    /\ Len(raw_regions) = 3
    /\ \E k \in 1..3 : sorted_regions[k].bbox # raw_regions[k].bbox
    /\ Len(regions) = 2
    /\ Len(panels) = 1
    /\ \E k \in 1..2 : panels[1].text_regions[k].reading_order
                           # regions[k].reading_order

\* the members of all panels, panel after panel
AllMembers(ps) == Flatten([p \in 1..Len(ps) |-> ps[p].text_regions])

\* C2: the member lists of the panels returned by detect_panels partition a
\* non-empty input: every input region is a member of exactly one panel and
\* no panel has a member that is not an input region.
C2_PanelsPartitionRegions ==
    (pc \in {"grouped", "done", "raised"} /\ regions # <<>>)
        => IsPermutation(regions, AllMembers(panels))

C2_Witness ==
    /\ pc = "grouped"
    /\ Len(regions) = 3
    /\ Len(panels) = 2
    /\ \E p \in 1..2 : Len(panels[p].text_regions) = 2

\* box encloses the box of region r
Encloses(box, r) ==
    /\ box[1] <= r.bbox[1]
    /\ box[2] <= r.bbox[2]
    /\ box[3] >= r.bbox[3]
    /\ box[4] >= r.bbox[4]

\* no smaller rectangle encloses the regions rs: every side of box is the
\* side of a region
Tight(box, rs) ==
    \A side \in 1..4 : \E k \in 1..Len(rs) : box[side] = rs[k].bbox[side]

\* C3: the bbox of every panel returned by detect_panels encloses the bbox
\* of each member and is the tightest such rectangle.
C3_PanelBoxIsUnionOfMembers ==
    pc \in {"grouped", "done", "raised"}
        => \A p \in 1..Len(panels) :
               /\ \A k \in 1..Len(panels[p].text_regions) :
                      Encloses(panels[p].bbox, panels[p].text_regions[k])
               /\ Tight(panels[p].bbox, panels[p].text_regions)

C3_Witness ==
    /\ pc = "grouped"
    /\ Len(panels) = 2
    /\ \E p \in 1..2 :
           /\ Len(panels[p].text_regions) = 2
           /\ \A k \in 1..2 : panels[p].text_regions[k].bbox # panels[p].bbox

\* no two regions of rs carry the same reading_order
DistinctKeys(rs) ==
    \A i \in 1..Len(rs) : \A j \in (i + 1)..Len(rs) :
        rs[i].reading_order # rs[j].reading_order

\* C4 as stated: with panel-based ordering no two regions of a page get the
\* same composite reading_order key.
C4_KeysNeverCollide ==
    (pc = "done" /\ use_panels) => DistinctKeys(final_regions)

\* C4, amended: with panel-based ordering and no panel of more than 1000
\* regions, no two regions of a page get the same composite reading_order
\* key, and the keys increase strictly along the returned sequence.
C4_KeysDistinctUpTo1000PerPanel ==
    (pc = "done" /\ use_panels
        /\ \A p \in 1..Len(panels) : Len(panels[p].text_regions) <= 1000)
    => /\ DistinctKeys(final_regions)
       /\ \A k \in 1..(Len(final_regions) - 1) :
              final_regions[k].reading_order
                  < final_regions[k + 1].reading_order

\* a page of two panels, the first with exactly 1000 regions
C4_Witness ==
    /\ pc = "done"
    /\ use_panels
    /\ Len(panels) = 2
    /\ Len(panels[1].text_regions) = 1000
    /\ final_regions[1000].reading_order = 999
    /\ final_regions[1001].reading_order = 1000

Decided == pc \in {"grouped", "done", "raised"}

C6_FallbackKeepsFlatOrder ==
    (pc = "done" /\ ~use_panels) =>
        /\ final_regions = regions
        /\ Len(ocr_results) = Len(regions)
        /\ \A k \in 1..Len(regions) : ocr_results[k].region = regions[k]

C6_Witness ==
    /\ pc = "done"
    /\ ~use_panels
    /\ Len(panels) = 1
    /\ Len(regions) = 5
    /\ final_regions = regions
    /\ \E k \in 1..5 : ocr_results[k].confidence = 0

\* C7: with 4 panels and 5 regions use_panels evaluates to false.
C7_FourPanelsOfFiveRegionsFallBack ==
    (Decided /\ Len(panels) = 4 /\ Len(regions) = 5) => ~use_panels

Top(r) == r.bbox[2]

\* the rows the seed-rescan rule assigns to the not-yet-assigned regions
\* (positions) todo of rs: the topmost of them is the seed, every one of
\* them within the row threshold of the seed joins the seed's row
RECURSIVE SeedRescanRows(_, _)
SeedRescanRows(rs, todo) ==
    IF todo = {} THEN {}
    ELSE LET seed == CHOOSE i \in todo :
                         \A j \in todo : Top(rs[i]) <= Top(rs[j])
             row == {j \in todo :
                        Abs(Top(rs[seed]) - Top(rs[j])) * 100 * Len(rs)
                            <= row_threshold(rs)}
         IN  {row} \cup SeedRescanRows(rs, todo \ row)

\* C8: sort_by_reading_order forms its rows by seed-rescan over the regions
\* in ascending top_y, and every region is assigned to exactly one row.
C8_RowsBySeedRescan ==
    (pc = "detected" /\ Len(raw_regions) >= 2) =>
        LET rows == region_rows(raw_regions)
            n == Len(raw_regions)
        IN  /\ {Range(rows[k]) : k \in 1..Len(rows)}
                   = SeedRescanRows(raw_regions, 1..n)
            /\ \A i \in 1..n :
                   Cardinality({km \in (1..Len(rows)) \X (1..n) :
                                   /\ km[2] <= Len(rows[km[1]])
                                   /\ rows[km[1]][km[2]] = i}) = 1

\* a row of two regions whose top edges are exactly the threshold apart,
\* next to a second row
C8_Witness ==
    /\ pc = "detected"
    /\ Len(raw_regions) = 3
    /\ LET rows == region_rows(raw_regions)
       IN  /\ Len(rows) = 2
           /\ \E k \in 1..2 :
                  /\ Len(rows[k]) = 2
                  /\ Abs(Top(raw_regions[rows[k][1]])
                           - Top(raw_regions[rows[k][2]])) * 100 * 3
                         = row_threshold(raw_regions)

\* the seed-rescan row of the regions of rs whose top edge is ty
RowOfTop(rs, ty) ==
    CHOOSE row \in SeedRescanRows(rs, 1..Len(rs)) :
        \E i \in row : Top(rs[i]) = ty

\* a is read before b in a row: further right, or as far right and not lower
RightToLeft(a, b) ==
    \/ a.bbox[3] > b.bbox[3]
    \/ (a.bbox[3] = b.bbox[3] /\ a.bbox[2] <= b.bbox[2])

\* C9: in the output of sort_by_reading_order the regions of one row are
\* consecutive and ordered by right edge x2 descending, ties by top edge y1
\* ascending.
C9_RowsConsecutiveRightToLeft ==
    (pc = "detected" /\ Len(raw_regions) >= 2) =>
        LET out == sorted_regions
            row == [k \in 1..Len(out) |-> RowOfTop(raw_regions, Top(out[k]))]
        IN  \A k \in 1..Len(out) : \A l \in k..Len(out) :
                row[k] = row[l] =>
                    /\ \A m \in k..l : row[m] = row[k]
                    /\ RightToLeft(out[k], out[l])

\* a row with two regions of the same right edge, given lower one first
C9_Witness ==
    /\ pc = "detected"
    /\ Len(raw_regions) = 3
    /\ \E k \in 1..2 :
           /\ RowOfTop(raw_regions, Top(sorted_regions[k]))
                  = RowOfTop(raw_regions, Top(sorted_regions[k + 1]))
           /\ sorted_regions[k].bbox[3] = sorted_regions[k + 1].bbox[3]
           /\ Top(sorted_regions[k]) < Top(sorted_regions[k + 1])
           /\ \E i \in 1..3 : \E j \in (i + 1)..3 :
                  /\ raw_regions[i].bbox = sorted_regions[k + 1].bbox
                  /\ raw_regions[j].bbox = sorted_regions[k].bbox

\* C10: in the output of sort_by_reading_order the rows appear in ascending
\* order of their minimum top_y, and reading_order counts from 0 over the
\* flattened rows.
C10_RowsTopToBottom ==
    (pc = "detected" /\ Len(raw_regions) >= 2) =>
        LET out == sorted_regions
            row == [k \in 1..Len(out) |-> RowOfTop(raw_regions, Top(out[k]))]
            MinTop(R) == SetMin({Top(raw_regions[i]) : i \in R})
        IN  /\ \A k \in 1..Len(out) : \A l \in k..Len(out) :
                   row[k] # row[l] => MinTop(row[k]) < MinTop(row[l])
            /\ NumberedFromZero(out)

\* two rows, the detector giving a region of the lower row first
C10_Witness ==
    /\ pc = "detected"
    /\ Len(raw_regions) = 3
    /\ Cardinality(SeedRescanRows(raw_regions, 1..3)) = 2
    /\ Top(raw_regions[1]) > Top(raw_regions[3])
    /\ Top(sorted_regions[1]) < Top(sorted_regions[3])
    /\ sorted_regions[3].reading_order = 2

\* the sum of the heights of the first k regions of rs
RECURSIVE HeightsUpTo(_, _)
HeightsUpTo(rs, k) ==
    IF k = 0 THEN 0
    ELSE HeightsUpTo(rs, k - 1) + (rs[k].bbox[4] - rs[k].bbox[2])

\* max(15, min(0.6 * avgHeight, 0.08 * (max top_y - min top_y))) for the
\* regions rs, as a multiple of 1 / (100 * Len(rs))
ClaimedRowThreshold(rs) ==
    LET n == Len(rs)
        highest == CHOOSE i \in 1..n : \A j \in 1..n : Top(rs[i]) <= Top(rs[j])
        lowest == CHOOSE i \in 1..n : \A j \in 1..n : Top(rs[i]) >= Top(rs[j])
        by_height == 60 * HeightsUpTo(rs, n)
        by_spread == 8 * n * (Top(rs[lowest]) - Top(rs[highest]))
        smaller == IF by_height <= by_spread THEN by_height ELSE by_spread
    IN  IF smaller >= 15 * 100 * n THEN smaller ELSE 15 * 100 * n

\* C11: the row threshold of sort_by_reading_order is
\* max(15, min(0.6 * avgHeight, 0.08 * (max top_y - min top_y))) with
\* avgHeight the arithmetic mean of the region heights; it is never below
\* 15 and it is 15 whenever all regions have the same top_y.
C11_RowThreshold ==
    (pc = "detected" /\ Len(raw_regions) >= 2) =>
        LET n == Len(raw_regions)
        IN  /\ row_threshold(raw_regions) = ClaimedRowThreshold(raw_regions)
            /\ row_threshold(raw_regions) >= 15 * 100 * n
            /\ (\A i \in 1..n : Top(raw_regions[i]) = Top(raw_regions[1]))
                   => row_threshold(raw_regions) = 15 * 100 * n

\* the threshold is 0.6 * avgHeight = 15.6: above the floor and below
\* 0.08 * spread = 16
C11_Witness ==
    /\ pc = "detected"
    /\ Len(raw_regions) = 3
    /\ row_threshold(raw_regions) = 60 * HeightsUpTo(raw_regions, 3)
    /\ row_threshold(raw_regions) > 15 * 100 * 3
    /\ row_threshold(raw_regions) < 8 * 3 * top_spread(raw_regions)

\* the centers of regions i and j of rs are at most 1.8 * avgHeight apart
\* (Euclidean distance): with the centers doubled and avgHeight =
\* HeightsUpTo / n, dist^2 <= 3.24 * avgHeight^2 reads
\* (dx2^2 + dy2^2) * 25 * n^2 <= 324 * HeightsUpTo^2
WithinEps(rs, i, j) ==
    LET n == Len(rs)
        dx2 == (rs[i].bbox[1] + rs[i].bbox[3]) - (rs[j].bbox[1] + rs[j].bbox[3])
        dy2 == (rs[i].bbox[2] + rs[i].bbox[4]) - (rs[j].bbox[2] + rs[j].bbox[4])
        h == HeightsUpTo(rs, n)
    IN  (dx2 * dx2 + dy2 * dy2) * 25 * n * n <= 324 * h * h

\* the regions linked to a region of S by a chain of regions, each within
\* eps of the next
RECURSIVE EpsComponent(_, _)
EpsComponent(rs, S) ==
    LET T == S \cup {j \in 1..Len(rs) : \E i \in S : WithinEps(rs, i, j)}
    IN  IF T = S THEN S ELSE EpsComponent(rs, T)

\* regions a and b are members of the same panel of ps
InSamePanel(ps, a, b) ==
    \E p \in 1..Len(ps) :
        /\ \E k \in 1..Len(ps[p].text_regions) :
               Piece(ps[p].text_regions[k]) = Piece(a)
        /\ \E k \in 1..Len(ps[p].text_regions) :
               Piece(ps[p].text_regions[k]) = Piece(b)

\* C12: for more than two regions the panels are exactly the maximal
\* connected sets of the graph that links two regions whose centers are at
\* most eps = 1.8 * avgHeight apart: two regions share a panel exactly when
\* a chain of such links joins them.
C12_PanelsAreEpsComponents ==
    (Decided /\ Len(regions) > 2) =>
        \A i \in 1..Len(regions) : \A j \in 1..Len(regions) :
            InSamePanel(panels, regions[i], regions[j])
                <=> j \in EpsComponent(regions, {i})

\* ps is a single panel with reading_order 0 that holds exactly the regions
\* rs and whose bbox is the union of their boxes
OnePanelOfAll(ps, rs) ==
    /\ Len(ps) = 1
    /\ IsPermutation(rs, ps[1].text_regions)
    /\ \A k \in 1..Len(rs) : Encloses(ps[1].bbox, rs[k])
    /\ Tight(ps[1].bbox, rs)
    /\ ps[1].reading_order = 0

\* C13 as stated: for one or two regions detect_panels returns exactly one
\* panel with all the regions, their union as bbox and reading_order 0,
\* however far apart two regions are.
C13_OneOrTwoRegionsOnePanel ==
    (Decided /\ Len(regions) \in {1, 2}) => OnePanelOfAll(panels, regions)

\* the centers of the two regions a and b differ by at most
\* max(2 * avg size, min(0.08 * largest far edge, 150)) along the axis
\* whose near edge is bbox[lo] and far edge bbox[hi]; both sides are
\* multiplied by 50
CloseAlong(a, b, lo, hi) ==
    LET d2 == (a.bbox[lo] + a.bbox[hi]) - (b.bbox[lo] + b.bbox[hi])
        dist50 == 25 * (IF d2 >= 0 THEN d2 ELSE -d2)
        sizes == (a.bbox[hi] - a.bbox[lo]) + (b.bbox[hi] - b.bbox[lo])
        far == IF a.bbox[hi] >= b.bbox[hi] THEN a.bbox[hi] ELSE b.bbox[hi]
        capped == IF 4 * far <= 150 * 50 THEN 4 * far ELSE 150 * 50
    IN  dist50 <= 50 * sizes \/ dist50 <= capped

\* C13, amended: for one region, and for two regions whose centers are
\* within the panel thresholds of each other on both axes, detect_panels
\* returns exactly one panel with all the regions, their union as bbox and
\* reading_order 0; two regions further apart are returned as two panels of
\* one region each.
C13_OneRegionOrTwoCloseOnePanel ==
    /\ (Decided /\ Len(regions) = 1) => OnePanelOfAll(panels, regions)
    /\ (Decided /\ Len(regions) = 2) =>
           IF CloseAlong(regions[1], regions[2], 1, 3)
                  /\ CloseAlong(regions[1], regions[2], 2, 4)
           THEN OnePanelOfAll(panels, regions)
           ELSE /\ Len(panels) = 2
                /\ IsPermutation(regions, AllMembers(panels))
                /\ \A p \in 1..2 : Len(panels[p].text_regions) = 1

\* two different regions that form one panel
C13_Witness ==
    /\ pc = "grouped"
    /\ Len(regions) = 2
    /\ regions[1].bbox # regions[2].bbox
    /\ Len(panels) = 1
    /\ Len(panels[1].text_regions) = 2

\* the input of test_detect_panels_grouping
\* (tests/test_panel_detector.py lines 31-35)
IsGroupingTestInput(rs) ==
    /\ Len(rs) = 3
    /\ rs[1].bbox = <<200, 50, 300, 100>>
    /\ rs[2].bbox = <<210, 110, 290, 150>>
    /\ rs[3].bbox = <<50, 250, 150, 300>>

\* C14: for the regions (200,50,300,100), (210,110,290,150) and
\* (50,250,150,300) detect_panels returns at least two panels, the first
\* two regions in one panel and the third in another.
C14_GroupingTest ==
    (Decided /\ IsGroupingTestInput(regions)) =>
        /\ Len(panels) >= 2
        /\ InSamePanel(panels, regions[1], regions[2])
        /\ ~InSamePanel(panels, regions[1], regions[3])
        /\ ~InSamePanel(panels, regions[2], regions[3])

C14_Witness ==
    /\ pc = "grouped"
    /\ IsGroupingTestInput(regions)
    /\ Len(panels) = 2
    /\ Len(panels[1].text_regions) = 2
    /\ panels[2].text_regions[1].bbox = <<50, 250, 150, 300>>

\* twice the center of panel p along x and along y
Cx2(p) == p.bbox[1] + p.bbox[3]

Cy2(p) == p.bbox[2] + p.bbox[4]

\* cy of a and b within the row threshold of the panels ps: 0.15 times the
\* spread of the cy when that is positive, else the average height (all cy
\* are equal then, so every pair is within it)
WithinCyThreshold(ps, a, b) ==
    LET cys == {Cy2(ps[k]) : k \in 1..Len(ps)}
        spread2 == SetMax(cys) - SetMin(cys)
        d2 == IF Cy2(a) >= Cy2(b) THEN Cy2(a) - Cy2(b) ELSE Cy2(b) - Cy2(a)
    IN  IF spread2 > 0 THEN 100 * d2 <= 15 * spread2
        ELSE d2 * Len(ps) <= 2 * HeightsUpTo(ps, Len(ps))

\* the position, in the panels by_cy sorted by cy, of the first panel of
\* the row that the sequential walk puts the k-th panel in
RECURSIVE RowStartOfWalk(_, _)
RowStartOfWalk(by_cy, k) ==
    IF k = 1 THEN 1
    ELSE LET start == RowStartOfWalk(by_cy, k - 1)
         IN  IF WithinCyThreshold(by_cy, by_cy[k], by_cy[start]) THEN start
             ELSE k

\* the panel ordering of the claim: sort by cy, walk, each row by cx
\* descending
OrderedByCenters(ps) ==
    LET by_cy == StableSort(ps, [k \in 1..Len(ps) |-> <<Cy2(ps[k])>>])
    IN  StableSort(by_cy,
                   [k \in 1..Len(ps) |->
                       <<RowStartOfWalk(by_cy, k), -Cx2(by_cy[k])>>])

\* C15 as stated: the panels are returned in the order of the procedure
\* that sorts them by center cy, walks them into rows with the threshold
\* 0.15 * (max cy - min cy) (the average height when the spread is zero)
\* against the first panel of the current row, and orders each row by
\* center cx descending.
C15_PanelsOrderedByCenters ==
    (Decided /\ Len(panels) >= 2) =>
        LET claimed == OrderedByCenters(panels)
        IN  \A k \in 1..Len(panels) : claimed[k].bbox = panels[k].bbox

\* max(20, min(0.6 * avg panel height, 0.08 * (max top - min top))) for the
\* panels ps, as a multiple of 1 / (100 * Len(ps))
ClaimedPanelRowThreshold(ps) ==
    LET m == Len(ps)
        tops == {Top(ps[k]) : k \in 1..m}
        by_height == 60 * HeightsUpTo(ps, m)
        by_spread == 8 * m * (SetMax(tops) - SetMin(tops))
        smaller == IF by_height <= by_spread THEN by_height ELSE by_spread
    IN  IF smaller >= 20 * 100 * m THEN smaller ELSE 20 * 100 * m

\* the rows of the seed-rescan rule over the positions todo of the panels
\* ps: the topmost of them is the seed, and every one of them whose top edge
\* is within the panel row threshold of the seed's joins its row
RECURSIVE PanelRows(_, _)
PanelRows(ps, todo) ==
    IF todo = {} THEN {}
    ELSE LET seed == CHOOSE i \in todo :
                         \A j \in todo : Top(ps[i]) <= Top(ps[j])
             row == {j \in todo :
                        Abs(Top(ps[seed]) - Top(ps[j])) * 100 * Len(ps)
                            <= ClaimedPanelRowThreshold(ps)}
         IN  {row} \cup PanelRows(ps, todo \ row)

\* the row of PanelRows that holds position k
PanelRowOf(ps, k) == CHOOSE row \in PanelRows(ps, 1..Len(ps)) : k \in row

\* C15, amended: the panels are returned in the order of the row sorting
\* of sort_by_reading_order applied to their boxes: rows formed by
\* seed-rescan over the top edges y1 with the threshold
\* max(20, min(0.6 * avg panel height, 0.08 * (max top - min top))), rows
\* in ascending order of their minimum top, each row by right edge x2
\* descending and, for equal x2, top edge ascending.
C15_PanelsOrderedByTopRight ==
    (Decided /\ Len(panels) >= 2) =>
        LET m == Len(panels)
            row == [k \in 1..m |-> PanelRowOf(panels, k)]
            MinTop(R) == SetMin({Top(panels[i]) : i \in R})
        IN  \A k \in 1..m : \A l \in (k + 1)..m :
                IF row[k] = row[l] THEN RightToLeft(panels[k], panels[l])
                ELSE MinTop(row[k]) < MinTop(row[l])

\* two panels in one row, the right one first although its top edge and
\* its center are lower
C15_Witness ==
    /\ pc = "grouped"
    /\ Len(panels) = 2
    /\ PanelRowOf(panels, 1) = PanelRowOf(panels, 2)
    /\ panels[1].bbox[3] > panels[2].bbox[3]
    /\ Top(panels[1]) > Top(panels[2])
    /\ Cy2(panels[1]) > Cy2(panels[2])

\* C16: panels of one row (top edges within the panel row threshold of the
\* row's topmost panel) carry consecutive reading_order values, and a panel
\* with a larger right edge x2 never carries a larger reading_order than a
\* panel of the same row with a smaller x2.
C16_PanelRowsRightToLeft ==
    (Decided /\ Len(panels) >= 2) =>
        \A row \in PanelRows(panels, 1..Len(panels)) :
            LET orders == {panels[k].reading_order : k \in row}
            IN  /\ orders = SetMin(orders)..SetMax(orders)
                /\ \A k \in row : \A l \in row :
                       panels[k].bbox[3] > panels[l].bbox[3]
                           => ~(panels[k].reading_order
                                   > panels[l].reading_order)

\* a row of three panels that came in with the left one first, above
\* another row
C16_Witness ==
    /\ pc = "grouped"
    /\ Len(panels) = 4
    /\ blk_list[1] = panels[3].bbox
    /\ \E row \in PanelRows(panels, 1..4) :
           /\ Cardinality(row) = 3
           /\ \A k \in row : \A l \in row :
                  k # l => panels[k].bbox[3] # panels[l].bbox[3]

\* C17: for a non-empty input the m panels returned by detect_panels carry
\* the reading_order values 0..m-1, none twice, and the panel at position i
\* (from 0) carries reading_order i.
C17_PanelsNumberedFromZero ==
    (Decided /\ regions # <<>>) =>
        LET m == Len(panels)
        IN  /\ m >= 1
            /\ {panels[k].reading_order : k \in 1..m} = 0..(m - 1)
            /\ \A k \in 1..m : \A l \in 1..m :
                   panels[k].reading_order = panels[l].reading_order => k = l
            /\ \A k \in 1..m : panels[k].reading_order = k - 1

\* four panels of five regions, numbered 0 to 3
C17_Witness ==
    /\ pc = "grouped"
    /\ Len(regions) = 5
    /\ Len(panels) = 4
    /\ panels[4].reading_order = 3

\* C18: the text_regions of every panel returned by detect_panels, on the
\* single-region and single-panel paths too, are non-empty and are what
\* sort_by_reading_order makes of the panel's members, so the member at
\* local index i carries reading_order i whatever reading_order the input
\* regions carried.
C18_PanelMembersSorted ==
    Decided =>
        \A p \in 1..Len(panels) :
            /\ panels[p].text_regions # <<>>
            /\ panels[p].text_regions
                   = sort_by_reading_order(panels[p].text_regions)
            /\ NumberedFromZero(panels[p].text_regions)

\* the number of members of the first p panels of ps
RECURSIVE MembersUpTo(_, _)
MembersUpTo(ps, p) ==
    IF p = 0 THEN 0 ELSE MembersUpTo(ps, p - 1) + Len(ps[p].text_regions)

\* out holds the members of the panels ps, panel after panel in the order of
\* the panels' reading_order and member after member, the member at index i
\* (from 0) of a panel keyed panel.reading_order * 1000 + i
EmittedByPanel(ps, out) ==
    /\ Len(out) = MembersUpTo(ps, Len(ps))
    /\ \A p \in 1..Len(ps) :
           /\ \A q \in (p + 1)..Len(ps) :
                  ps[p].reading_order < ps[q].reading_order
           /\ \A i \in 1..Len(ps[p].text_regions) :
                  LET k == MembersUpTo(ps, p - 1) + i
                  IN  /\ Piece(out[k]) = Piece(ps[p].text_regions[i])
                      /\ out[k].reading_order
                             = ps[p].reading_order * 1000 + (i - 1)

\* C19: when use_panels is true every region ends with the reading_order
\* panel.reading_order * 1000 + its 0-based index in the panel, the output
\* holds every region of the page exactly once, and the regions are emitted
\* panel by panel in the panels' reading order and, inside a panel, in the
\* panel's order.
C19_PanelOrderComposition ==
    (pc = "done" /\ use_panels) =>
        /\ EmittedByPanel(panels, final_regions)
        /\ IsPermutation(regions, final_regions)

\* a panel of two regions followed by a panel of one
C19_Witness ==
    /\ pc = "done"
    /\ use_panels
    /\ Len(panels) = 2
    /\ Len(regions) = 3
    /\ final_regions[1].reading_order = 0
    /\ final_regions[2].reading_order = 1
    /\ final_regions[3].reading_order = 1000

\* C20: with skip_errors, a region whose recognition fails gets a result
\* with empty text and confidence 0 at the position and with the
\* reading_order it has when the recognition succeeds, and the loop goes
\* on: the page result holds exactly one result per region, in the computed
\* order, with panel-based order and with the fallback.
C20_FailedRegionsKeepTheirPlace ==
    (pc = "done" /\ skip_errors) =>
        /\ Len(ocr_results) = Len(regions)
        /\ Len(final_regions) = Len(regions)
        /\ IF use_panels THEN EmittedByPanel(panels, final_regions)
           ELSE final_regions = regions
        /\ \A k \in 1..Len(ocr_results) :
               /\ ocr_results[k].region = final_regions[k]
               /\ k \in failed_calls =>
                      /\ ocr_results[k].text = ""
                      /\ ocr_results[k].confidence = 0
               /\ k \notin failed_calls => ocr_results[k].confidence = 1

\* panel-based order, the first call fails and the later ones succeed
C20_Witness ==
    /\ pc = "done"
    /\ skip_errors
    /\ use_panels
    /\ Len(regions) = 3
    /\ failed_calls = {1}
    /\ ocr_results[1].text = ""
    /\ ocr_results[1].region.reading_order = 0
    /\ ocr_results[2].confidence = 1
    /\ ocr_results[3].region.reading_order = 1000

\* two regions of one row of sort_by_reading_order over rs have top edges
\* more than the row threshold apart
SomeRowWiderThanThreshold(rs) ==
    /\ Len(rs) >= 2
    /\ LET rows == region_rows(rs)
       IN  \E k \in 1..Len(rows) :
               \E i \in Range(rows[k]) : \E j \in Range(rows[k]) :
                   Abs(Top(rs[i]) - Top(rs[j])) * 100 * Len(rs)
                       > ClaimedRowThreshold(rs)

\* C21 as stated: there are inputs for which sort_by_reading_order places
\* two regions in one row although their top_y differ by more than the row
\* threshold.  The inputs searched are all detector outputs of the model,
\* that of the current page among them.
C21_SomeInputHasWideRow ==
    \E page \in Pages \cup {blk_list} :
        SomeRowWiderThanThreshold(blocks_to_regions(page))

\* C21, amended: every candidate is compared with the seed of its row only,
\* and the seed is the not-yet-assigned region of smallest top_y, so any two
\* regions of one row have top_y at most the row threshold apart.
C21_RowsWithinThreshold ==
    (pc = "detected" /\ Len(raw_regions) >= 2) =>
        ~SomeRowWiderThanThreshold(raw_regions)

\* a row of three regions with three different top edges
C21_Witness ==
    /\ pc = "detected"
    /\ Len(raw_regions) >= 3
    /\ LET rows == region_rows(raw_regions)
       IN  \E k \in 1..Len(rows) :
               /\ Len(rows[k]) = 3
               /\ Cardinality({Top(raw_regions[i]) : i \in Range(rows[k])})
                      = 3

\* the orders in which a list of n regions can be given
Orders(n) ==
    {f \in [1..n -> 1..n] : \A i \in 1..n : \E k \in 1..n : f[k] = i}

\* the panels ps as a partition: the set of members (bbox and image) and the
\* bbox of each panel
PanelPartition(ps) ==
    {<<{Piece(ps[p].text_regions[k]) : k \in 1..Len(ps[p].text_regions)},
       ps[p].bbox>> : p \in 1..Len(ps)}

\* C22: detect_panels is a function of the set of input regions: the same
\* regions in another list order give the same partition into panels, with
\* the same member sets and the same panel bboxes.
C22_PanelsIndependentOfOrder ==
    (pc = "grouped" /\ Len(regions) >= 2) =>
        \A f \in Orders(Len(regions)) :
            PanelPartition(detect_panels([k \in 1..Len(regions) |->
                                             regions[f[k]]]))
                = PanelPartition(panels)

\* the box of every region of rs has x2 > x1 and y2 > y1
WellFormed(rs) ==
    \A k \in 1..Len(rs) :
        rs[k].bbox[3] > rs[k].bbox[1] /\ rs[k].bbox[4] > rs[k].bbox[2]

C24_RowsAreDisjointBands ==
    (pc = "detected" /\ Len(raw_regions) >= 2) =>
        LET n == Len(raw_regions)
            out == sorted_regions
            rows == region_rows(raw_regions)
        IN  /\ \A k \in 1..n : \A l \in 1..n :
                   (Top(out[l]) - Top(out[k])) * 100 * n
                           > ClaimedRowThreshold(raw_regions)
                       => out[k].reading_order < out[l].reading_order
            /\ \A r \in 1..Len(rows) : \A q \in (r + 1)..Len(rows) :
                   \A i \in Range(rows[r]) : \A j \in Range(rows[q]) :
                       Top(raw_regions[i]) < Top(raw_regions[j])
            /\ sorted_rows(raw_regions) = rows

\* two rows, the upper one of two regions with different tops, the
\* detector giving a region of the lower row first
C24_Witness ==
    /\ pc = "detected"
    /\ Len(raw_regions) = 3
    /\ LET rows == region_rows(raw_regions)
       IN  /\ Len(rows) = 2
           /\ Len(rows[1]) = 2
           /\ Top(raw_regions[rows[1][1]]) # Top(raw_regions[rows[1][2]])
           /\ raw_regions[1] = raw_regions[rows[2][1]]

\* the rows of one pass over the regions todo of rs in ascending top_y: a
\* region joins the current row when its top_y is within the row threshold
\* of that of the row's first region (first), and starts a new row
\* otherwise
RECURSIVE SequentialRows(_, _, _, _)
SequentialRows(rs, todo, row, first) ==
    LET closed == IF row = {} THEN {} ELSE {row}
    IN  IF todo = {} THEN closed
        ELSE LET next == CHOOSE i \in todo :
                             \A j \in todo : Top(rs[i]) <= Top(rs[j])
             IN  IF row # {}
                     /\ (Top(rs[next]) - Top(rs[first])) * 100 * Len(rs)
                            <= ClaimedRowThreshold(rs)
                 THEN SequentialRows(rs, todo \ {next}, row \cup {next},
                                     first)
                 ELSE closed
                          \cup SequentialRows(rs, todo \ {next}, {next}, next)

\* C25: the seed-rescan row grouping of sort_by_reading_order gives the
\* same rows as one sequential pass over the regions in ascending top_y that
\* appends to the current row while a region is within the row threshold of
\* the row's first region and starts a new row otherwise.
C25_SeedRescanIsSequentialPass ==
    (pc = "detected" /\ Len(raw_regions) >= 2) =>
        LET rows == region_rows(raw_regions)
        IN  /\ {Range(rows[k]) : k \in 1..Len(rows)}
                   = SequentialRows(raw_regions, 1..Len(raw_regions), {}, 0)
            /\ Len(Flatten(rows)) = Len(raw_regions)

\* two rows, the seed of the second within the threshold of a region of
\* the first row but not of the first row's seed
C25_Witness ==
    /\ pc = "detected"
    /\ Len(raw_regions) = 3
    /\ LET rows == region_rows(raw_regions)
       IN  /\ Len(rows) = 2
           /\ Len(rows[1]) = 2
           /\ \E i \in Range(rows[1]) :
                  (Top(raw_regions[rows[2][1]]) - Top(raw_regions[i])) * 100 * 3
                      <= ClaimedRowThreshold(raw_regions)

\* no two regions of rs have both the same right edge and the same top edge
NoSharedTopRight(rs) ==
    \A i \in 1..Len(rs) : \A j \in 1..Len(rs) :
        (rs[i].bbox[3] = rs[j].bbox[3] /\ rs[i].bbox[2] = rs[j].bbox[2])
            => i = j

\* C26: when no two regions share both right edge x2 and top edge y1, the
\* sequence of bboxes returned by sort_by_reading_order is the same for
\* every order in which the same regions are given.
C26_SortIndependentOfOrder ==
    (pc = "detected" /\ Len(raw_regions) >= 2
        /\ NoSharedTopRight(raw_regions)) =>
        \A f \in Orders(Len(raw_regions)) :
            LET out == sort_by_reading_order(
                           [k \in 1..Len(raw_regions) |-> raw_regions[f[k]]])
            IN  /\ Len(out) = Len(sorted_regions)
                /\ \A k \in 1..Len(out) : out[k].bbox = sorted_regions[k].bbox

\* three regions in two rows, not given in reading order
C26_Witness ==
    /\ pc = "detected"
    /\ Len(raw_regions) = 3
    /\ NoSharedTopRight(raw_regions)
    /\ Len(region_rows(raw_regions)) = 2
    /\ \A k \in 1..3 : sorted_regions[k].bbox # raw_regions[k].bbox


\* whether processing the page of an image file fails as a whole
PageFails(image_file) ==
    \/ image_file.path.type # "Path"
    \/ Image_open_raises(image_file.path)
    \/ detect_text_regions_raises(image_file.path)

\* C27: with skip_errors, process_images never raises; the results are one
\* per image processed so far, in input order, each with the page_number of
\* its image's index; a page that fails has empty regions and ocr_results;
\* and the list returned has one result for every input image, the images
\* after a failed page included.
C27_SkipErrorsOneResultPerImage ==
    (skip_errors /\ batch_pc # "idle") =>
        /\ batch_pc # "raised"
        /\ Len(results) = file_pos - 1
        /\ batch_pc = "returned" => Len(results) = Len(image_files)
        /\ \A i \in 1..Len(results) :
               /\ results[i].page_number = image_files[i].index
               /\ results[i].filename = image_files[i].filename
               /\ PageFails(image_files[i]) =>
                      /\ results[i].regions = <<>>
                      /\ results[i].ocr_results = <<>>
               /\ ~PageFails(image_files[i]) =>
                      Len(results[i].regions)
                          = Len(detected_blocks(image_files[i].path))

\* a batch returned whose first page failed in the handler of
\* process_images and whose second page, numbered 8, has all its regions
C27_Witness ==
    /\ skip_errors
    /\ batch_pc = "returned"
    /\ Len(image_files) = 2
    /\ image_files[1].path.type = "str"
    /\ results[1].regions = <<>>
    /\ results[2].page_number = 8
    /\ Len(results[2].regions) = 4
    /\ \E k \in 1..4 : results[2].ocr_results[k].text = ""


\* C28: after any sequence of calls of _get_ocr_instance that differ in
\* their device argument only, every call that returned an instance got one
\* constructed with the force_cpu flag its own device implies: TRUE for
\* "cpu", FALSE for "auto" and "mps".
C28_ReturnedInstanceMatchesDevice ==
    (\A k \in 1..Len(ocr_calls) : ~ocr_calls[k].force_cpu) =>
        \A k \in 1..Len(ocr_calls) :
            ~ocr_calls[k].raised =>
                ocr_calls[k].returned[1].force_cpu
                    = (ocr_calls[k].device = "cpu")


\* whether anything of the directory exists on the file system
OnDisk(directory) ==
    \/ directory \in dirs
    \/ \E f \in files : f[1] = directory

\* C29: while the with-block runs the extraction directory exists; once
\* extract_zip is left, by the end of the body, by an exception of the body
\* or by ZipExtractionError, the directory it made for temp_dir None is
\* gone with its files, and a directory supplied by the caller is still
\* there with every file extracted into it.
C29_DirectoryRemovedIffOwn ==
    /\ zip_pc \in {"body", "exit"} =>
           /\ temp_dir_obj \in dirs
           /\ \A n \in zip_path.names : <<temp_dir_obj, n>> \in files
    /\ (zip_pc = "exited" /\ temp_dir = None) =>
           /\ ~OnDisk(MkdtempDir)
           /\ files = {}
    /\ (zip_pc = "exited" /\ temp_dir # None /\ temp_dir_obj # None) =>
                  /\ temp_dir_obj = temp_dir
                  /\ temp_dir_obj \in dirs
                  /\ \A n \in zip_path.names : <<temp_dir_obj, n>> \in files

\* the body of a with-block over a directory made by mkdtemp has raised and
\* the with-block is left
C29_Witness ==
    /\ zip_pc = "exited"
    /\ temp_dir = None
    /\ temp_dir_obj = MkdtempDir
    /\ zip_outcome = "BodyError"
    /\ Cardinality(zip_path.names) = 4

\* C30: when process_zip has returned its list, for temp_dir None the
\* extraction directory is gone and no path of the list is an existing
\* file; for a supplied temp_dir every path of the list is an existing
\* file.
C30_ReturnedPathsExistIffSupplied ==
    (zip_caller = "process_zip" /\ zip_pc = "exited"
         /\ zip_outcome = "returned") =>
        /\ zip_image_files # <<>>
        /\ temp_dir = None =>
               /\ temp_dir_obj \notin dirs
               /\ \A i \in 1..Len(zip_image_files) :
                      zip_image_files[i].path \notin files
        /\ temp_dir # None =>
               \A i \in 1..Len(zip_image_files) :
                   zip_image_files[i].path \in files

\* process_zip has returned three image files in natural order out of a
\* directory made by mkdtemp
C30_Witness ==
    /\ zip_caller = "process_zip"
    /\ zip_pc = "exited"
    /\ zip_outcome = "returned"
    /\ temp_dir = None
    /\ Len(zip_image_files) = 3
    /\ zip_image_files[2].filename = FileName(2, ".JPG")
    /\ zip_image_files[3].filename = FileName(10, ".png")
    /\ zip_image_files[3].index = 3

====
